---- MODULE Spec2Model ----
(***************************************************************************)
(* A model of ts-optional (src/src/index.ts): the Optional container, its  *)
(* factories and the free functions of the Optional namespace.             *)
(*                                                                         *)
(* JavaScript values are records [kind, v].  An Optional is an object on   *)
(* the heap: heap[r] is the identity field of the r-th Optional that was   *)
(* constructed, and the value Opt(r) is the reference to it.  Every        *)
(* function of the source is an operator that takes the heap and returns   *)
(* an outcome: whether the call returned or threw, the value returned or   *)
(* thrown, the caller's callbacks it invoked (in order) and the heap after *)
(* the call.  One action per entry point of the API applies its operator   *)
(* to inputs drawn from small sets and records the call in call.            *)
(***************************************************************************)
EXTENDS Integers, Sequences, FiniteSets, TLC

VARIABLES heap, call

vars == <<heap, call>>

\* The most Optional instances a run constructs.
MaxHeap == 2

-----------------------------------------------------------------------------
(* JavaScript values *)

Val(k, n) == [kind |-> k, v |-> n]

Null == Val("null", 0)
Undefined == Val("undefined", 0)
Num(n) == Val("num", n)
Bool(b) == Val("bool", IF b THEN 1 ELSE 0)
\* a string of n characters: Str(0) is ''
Str(n) == Val("str", n)
\* the n-th object or array of the caller ({} and [] included): a reference
Obj(n) == Val("obj", n)
\* the reference to the r-th Optional instance
Opt(r) == Val("opt", r)

\* a === b on values: numbers, booleans and strings by value, objects and
\* Optionals by reference, null and undefined only to themselves
StrictEquals(a, b) == a = b

\* ToBoolean, as `if (x)`, `x || y` and `!x` apply it
Truthy(x) ==
    CASE x.kind \in {"null", "undefined"} -> FALSE
      [] x.kind \in {"num", "bool", "str"} -> x.v # 0
      [] OTHER -> TRUE

\* The messages of the errors the library constructs; a TypeError is what the
\* runtime throws for a call of, or a property access on, a non-function value.
ErrorMessages ==
    << "Absent value provided",
       "Absent value was passed as source argument",
       "Absent value was passed as transformer argument",
       "Absent value was passed as predicate argument",
       "Absent value was passed as supplier argument",
       "Absent value was passed as other argument",
       "Absent value was passed as consumer argument",
       "Absent value was passed as action argument",
       "Transformer returned absent value instead of IOptional",
       "Identity is not present",
       "Provided supplier returned empty value instead of optional",
       "Absent identity provided",
       "TypeError",
       "caller's error" >>

Error(message) ==
    Val("error", CHOOSE i \in DOMAIN ErrorMessages : ErrorMessages[i] = message)

\* The functions a caller passes: x => x, (a, b) => a === b, and the constant
\* functions () => r for the values r of Returned.  A function value is
\* Val("fn", i), the i-th of: identity, equals, then one constant function
\* for each element of Returned.
Returned ==
    << Null, Undefined, Num(0), Num(1), Bool(FALSE), Bool(TRUE), Str(0), Obj(1),
       Obj(2), Error("caller's error"), Error("Identity is not present") >>
        \o [r \in 1..MaxHeap |-> Opt(r)]

\* x => !x
Not == Val("fn", 0)
Identity == Val("fn", 1)
Equals == Val("fn", 2)
Const(r) == Val("fn", 2 + (CHOOSE i \in DOMAIN Returned : Returned[i] = r))

\* x => g(f(x)) for two of the functions above: a function value of its own,
\* numbered from 100 up
Compose(g, f) == Val("fn", 100 * (g.v + 1) + f.v)

\* f(a, b) for one of the functions above
Primitive(f, a, b) ==
    CASE f = Not -> Bool(~Truthy(a))
      [] f = Identity -> a
      [] f = Equals -> Bool(StrictEquals(a, b))
      [] OTHER -> Returned[f.v - 2]

\* f(a, b) for a function value f
Apply(f, a, b) ==
    IF f.v >= 100
    THEN Primitive(Val("fn", (f.v \div 100) - 1),
                   Primitive(Val("fn", f.v % 100), a, b), Undefined)
    ELSE Primitive(f, a, b)

-----------------------------------------------------------------------------
(* Outcomes of a call *)

\* One invocation of a caller's function fn with the arguments a and b
\* (Undefined for an argument that was not passed).
Invocation(fn, a, b) == [fn |-> fn, a |-> a, b |-> b]

Return(h, val, calls) ==
    [st |-> "return", val |-> val, str |-> "", calls |-> calls, heap |-> h]

ReturnString(h, s, calls) ==
    [st |-> "return", val |-> Undefined, str |-> s, calls |-> calls, heap |-> h]

Throw(h, thrown, calls) ==
    [st |-> "throw", val |-> thrown, str |-> "", calls |-> calls, heap |-> h]

\* The call f(a, b) made by the library after the invocations `calls`: a
\* function is invoked and the invocation recorded; anything else is not
\* callable, and the runtime throws a TypeError.
Call(h, f, a, b, calls) ==
    IF f.kind = "fn"
    THEN Return(h, Apply(f, a, b), Append(calls, Invocation(f, a, b)))
    ELSE Throw(h, Error("TypeError"), calls)

\* new Optional(identity)
NewOptional(h, identity) == Return(Append(h, identity), Opt(Len(h) + 1), <<>>)

-----------------------------------------------------------------------------
(* namespace Optional: the helpers *)

\* as isPresent, the check of undefined forgotten
isPresent_NullOnly(value) == value.kind # "null"

isPresent(value) == value.kind # "null" /\ value.kind # "undefined"

\* as isAbsent, by truthiness: !value
isAbsent_Falsy(value) == ~Truthy(value)

isAbsent(value) == ~isPresent(value)

\* require(value, onMissing), onMissing being () => new Error(message):
\* the error thrown, or "none" when value is returned
require(value, message) ==
    IF ~isPresent(value) THEN Error(message) ELSE Val("none", 0)

requireArgument(argument, name) ==
    IF ~isPresent(argument)
    THEN Error("Absent value was passed as " \o name \o " argument")
    ELSE Val("none", 0)

Failed(check) == check.kind = "error"

\* calls made before those of the outcome out
After(calls, out) == [out EXCEPT !.calls = calls \o @]

\* The arrays a caller passes to first and last: Val("arr", i) is the i-th.
Arrays ==
    << <<>>,
       <<Num(0)>>,
       <<Null, Obj(1)>>,
       <<Obj(1), Num(0), Undefined>> >>

Array(i) == Val("arr", i)

Elements(source) == Arrays[source.v]

-----------------------------------------------------------------------------
(* namespace Optional: the factories and the free functions *)

empty(h) == NewOptional(h, Null)

\* as of, the identity checked by truthiness
of_Truthy(h, identity) ==
    IF ~Truthy(identity)
    THEN Throw(h, Error("Absent identity provided"), <<>>)
    ELSE NewOptional(h, identity)

of(h, identity) ==
    LET check == require(identity, "Absent identity provided")
    IN  IF Failed(check) THEN Throw(h, check, <<>>) ELSE NewOptional(h, identity)

ofNullable(h, identity) == NewOptional(h, identity)

\* as first, the element wrapped by of, not by ofNullable
first_Of(h, source) ==
    LET check == requireArgument(source, "source")
    IN  IF Failed(check) THEN Throw(h, check, <<>>)
        ELSE IF Len(Elements(source)) > 0
             THEN of(h, Elements(source)[1])
             ELSE empty(h)

first(h, source) ==
    LET check == requireArgument(source, "source")
    IN  IF Failed(check) THEN Throw(h, check, <<>>)
        ELSE IF Len(Elements(source)) > 0
             THEN ofNullable(h, Elements(source)[1])
             ELSE empty(h)

last(h, source) ==
    LET check == requireArgument(source, "source")
    IN  IF Failed(check) THEN Throw(h, check, <<>>)
        ELSE IF Len(Elements(source)) > 0
             THEN ofNullable(h, Elements(source)[Len(Elements(source))])
             ELSE empty(h)

\* as map, the result kept when it is truthy
map_Falsy(h, value, transformer) ==
    LET check == requireArgument(transformer, "transformer")
        transformed == Call(h, transformer, value, Undefined, <<>>)
    IN  IF Failed(check) THEN Throw(h, check, <<>>)
        ELSE IF isPresent(value)
             THEN IF transformed.st = "throw" THEN transformed
                  ELSE IF Truthy(transformed.val)
                       THEN After(transformed.calls, ofNullable(h, transformed.val))
                       ELSE After(transformed.calls, empty(h))
             ELSE empty(h)

\* as map, the result wrapped by of, not by ofNullable
map_Of(h, value, transformer) ==
    LET check == requireArgument(transformer, "transformer")
        transformed == Call(h, transformer, value, Undefined, <<>>)
    IN  IF Failed(check) THEN Throw(h, check, <<>>)
        ELSE IF isPresent(value)
             THEN IF transformed.st = "throw" THEN transformed
                  ELSE After(transformed.calls, of(h, transformed.val))
             ELSE empty(h)

map(h, value, transformer) ==
    LET check == requireArgument(transformer, "transformer")
        transformed == Call(h, transformer, value, Undefined, <<>>)
    IN  IF Failed(check) THEN Throw(h, check, <<>>)
        ELSE IF isPresent(value)
             THEN IF transformed.st = "throw" THEN transformed
                  ELSE After(transformed.calls, ofNullable(h, transformed.val))
             ELSE empty(h)

\* as flatMap, the value looked at before the transformer is validated
flatMap_PresenceFirst(h, value, transformer) ==
    LET check == requireArgument(transformer, "transformer")
        transformed == Call(h, transformer, value, Undefined, <<>>)
        returned == require(transformed.val,
                            "Transformer returned absent value instead of IOptional")
    IN  IF isAbsent(value) THEN empty(h)
        ELSE IF Failed(check) THEN Throw(h, check, <<>>)
        ELSE IF transformed.st = "throw" THEN transformed
        ELSE IF Failed(returned) THEN Throw(h, returned, transformed.calls)
        ELSE Return(h, transformed.val, transformed.calls)

\* as flatMap, what the transformer returned not checked
flatMap_Unchecked(h, value, transformer) ==
    LET check == requireArgument(transformer, "transformer")
        transformed == Call(h, transformer, value, Undefined, <<>>)
    IN  IF Failed(check) THEN Throw(h, check, <<>>)
        ELSE IF isAbsent(value) THEN empty(h)
        ELSE transformed

flatMap(h, value, transformer) ==
    LET check == requireArgument(transformer, "transformer")
        transformed == Call(h, transformer, value, Undefined, <<>>)
        returned == require(transformed.val,
                            "Transformer returned absent value instead of IOptional")
    IN  IF Failed(check) THEN Throw(h, check, <<>>)
        ELSE IF isAbsent(value) THEN empty(h)
        ELSE IF transformed.st = "throw" THEN transformed
        ELSE IF Failed(returned) THEN Throw(h, returned, transformed.calls)
        ELSE Return(h, transformed.val, transformed.calls)

-----------------------------------------------------------------------------
(* class Optional: this is the index of the receiver, h[this] its identity *)

Optional_isPresent(h, this) == Return(h, Bool(isPresent(h[this])), <<>>)

Optional_isAbsent(h, this) == Return(h, Bool(isAbsent(h[this])), <<>>)

\* as Optional#map, the identity checked by truthiness
Optional_map_Truthy(h, this, transformer) ==
    IF Truthy(h[this]) THEN map(h, h[this], transformer) ELSE empty(h)

Optional_map(h, this, transformer) ==
    IF isPresent(h[this]) THEN map(h, h[this], transformer) ELSE empty(h)

\* as Optional#flatMap, the Optional the transformer made wrapped in another
Optional_flatMap_Wrapping(h, this, transformer) ==
    LET made == flatMap(h, h[this], transformer)
    IN  IF made.st = "throw" \/ isAbsent(h[this]) THEN made
        ELSE After(made.calls, ofNullable(h, made.val))

Optional_flatMap(h, this, transformer) == flatMap(h, h[this], transformer)

\* as Optional#filter, the receiver emptied in place when the predicate rejects
Optional_filter_InPlace(h, this, predicate) ==
    LET check == requireArgument(predicate, "predicate")
        tested == Call(h, predicate, h[this], Undefined, <<>>)
    IN  IF Failed(check) THEN Throw(h, check, <<>>)
        ELSE IF isAbsent(h[this]) THEN Return(h, Opt(this), <<>>)
        ELSE IF tested.st = "throw" THEN tested
        ELSE IF Truthy(tested.val) THEN Return(h, Opt(this), tested.calls)
        ELSE Return([h EXCEPT ![this] = Null], Opt(this), tested.calls)

\* as Optional#filter, the predicate run whatever the receiver holds
Optional_filter_Unguarded(h, this, predicate) ==
    LET check == requireArgument(predicate, "predicate")
        tested == Call(h, predicate, h[this], Undefined, <<>>)
    IN  IF Failed(check) THEN Throw(h, check, <<>>)
        ELSE IF tested.st = "throw" THEN tested
        ELSE IF Truthy(tested.val) THEN Return(h, Opt(this), tested.calls)
        ELSE After(tested.calls, empty(h))

\* as Optional#filter, a copy of the receiver returned when the predicate accepts
Optional_filter_Copy(h, this, predicate) ==
    LET check == requireArgument(predicate, "predicate")
        tested == Call(h, predicate, h[this], Undefined, <<>>)
    IN  IF Failed(check) THEN Throw(h, check, <<>>)
        ELSE IF isAbsent(h[this]) THEN Return(h, Opt(this), <<>>)
        ELSE IF tested.st = "throw" THEN tested
        ELSE IF Truthy(tested.val)
             THEN After(tested.calls, ofNullable(h, h[this]))
        ELSE After(tested.calls, empty(h))

\* as Optional#filter, what the predicate returned kept in place of the
\* identity: the receiver mapped, not filtered
Optional_filter_Map(h, this, predicate) ==
    LET check == requireArgument(predicate, "predicate")
        tested == Call(h, predicate, h[this], Undefined, <<>>)
    IN  IF Failed(check) THEN Throw(h, check, <<>>)
        ELSE IF isAbsent(h[this]) THEN Return(h, Opt(this), <<>>)
        ELSE IF tested.st = "throw" THEN tested
        ELSE After(tested.calls, ofNullable(h, tested.val))

Optional_filter(h, this, predicate) ==
    LET check == requireArgument(predicate, "predicate")
        tested == Call(h, predicate, h[this], Undefined, <<>>)
    IN  IF Failed(check) THEN Throw(h, check, <<>>)
        ELSE IF isAbsent(h[this]) THEN Return(h, Opt(this), <<>>)
        ELSE IF tested.st = "throw" THEN tested
        ELSE IF Truthy(tested.val) THEN Return(h, Opt(this), tested.calls)
        ELSE After(tested.calls, empty(h))

Optional_satisfies(h, this, predicate) ==
    IF isPresent(h[this])
    THEN Call(h, predicate, h[this], Undefined, <<>>)
    ELSE Return(h, Bool(FALSE), <<>>)

\* as Optional#dissatisfies, the negation of satisfies
Optional_dissatisfies_Negation(h, this, predicate) ==
    LET tested == Call(h, predicate, h[this], Undefined, <<>>)
    IN  IF ~isPresent(h[this]) THEN Return(h, Bool(TRUE), <<>>)
        ELSE IF tested.st = "throw" THEN tested
        ELSE Return(h, Bool(~Truthy(tested.val)), tested.calls)

Optional_dissatisfies(h, this, predicate) ==
    LET tested == Call(h, predicate, h[this], Undefined, <<>>)
    IN  IF ~isPresent(h[this]) THEN Return(h, Bool(FALSE), <<>>)
        ELSE IF tested.st = "throw" THEN tested
        ELSE Return(h, Bool(~Truthy(tested.val)), tested.calls)

\* as Optional#contains, the receiver not looked at before the comparison
Optional_contains_Unguarded(h, this, value, comparator) ==
    IF Truthy(comparator) THEN Call(h, comparator, h[this], value, <<>>)
    ELSE Return(h, Bool(StrictEquals(h[this], value)), <<>>)

Optional_contains(h, this, value, comparator) ==
    IF isAbsent(h[this]) THEN Return(h, Bool(FALSE), <<>>)
    ELSE IF Truthy(comparator) THEN Call(h, comparator, h[this], value, <<>>)
    ELSE Return(h, Bool(StrictEquals(h[this], value)), <<>>)

\* as Optional#orElseThrow, the identity checked by truthiness
Optional_orElseThrow_Truthy(h, this, supplier) ==
    LET check == requireArgument(supplier, "supplier")
        supplied == Call(h, supplier, Undefined, Undefined, <<>>)
    IN  IF Failed(check) THEN Throw(h, check, <<>>)
        ELSE IF Truthy(h[this]) THEN Return(h, h[this], <<>>)
        ELSE IF supplied.st = "throw" THEN supplied
        ELSE Throw(h, supplied.val, supplied.calls)

Optional_orElseThrow(h, this, supplier) ==
    LET check == requireArgument(supplier, "supplier")
        supplied == Call(h, supplier, Undefined, Undefined, <<>>)
    IN  IF Failed(check) THEN Throw(h, check, <<>>)
        ELSE IF Truthy(Optional_isPresent(h, this).val) THEN Return(h, h[this], <<>>)
        ELSE IF supplied.st = "throw" THEN supplied
        ELSE Throw(h, supplied.val, supplied.calls)

\* () => new Error('Identity is not present'), the supplier get() passes
IdentityNotPresent == Const(Error("Identity is not present"))

\* The invocation of the library's own supplier is not one of a caller's
\* function, and is not recorded.
Optional_get(h, this) ==
    [Optional_orElseThrow(h, this, IdentityNotPresent) EXCEPT !.calls = <<>>]

\* as Optional#orElse, the fallback value returned as it was passed
Optional_orElse_Verbatim(h, this, value) ==
    IF isPresent(h[this]) THEN Return(h, h[this], <<>>) ELSE Return(h, value, <<>>)

Optional_orElse(h, this, value) ==
    IF isPresent(h[this]) THEN Return(h, h[this], <<>>)
    ELSE Return(h, IF isPresent(value) THEN value ELSE Null, <<>>)

\* as Optional#orElseSupply, the supplier called before the receiver is looked at
Optional_orElseSupply_Eager(h, this, supplier) ==
    LET check == requireArgument(supplier, "supplier")
        supplied == Call(h, supplier, Undefined, Undefined, <<>>)
    IN  IF Failed(check) THEN Throw(h, check, <<>>)
        ELSE IF supplied.st = "throw" THEN supplied
        ELSE IF Truthy(Optional_isPresent(h, this).val)
             THEN Return(h, h[this], supplied.calls)
        ELSE Return(h, IF isPresent(supplied.val) THEN supplied.val ELSE Null,
                    supplied.calls)

Optional_orElseSupply(h, this, supplier) ==
    LET check == requireArgument(supplier, "supplier")
        supplied == Call(h, supplier, Undefined, Undefined, <<>>)
    IN  IF Failed(check) THEN Throw(h, check, <<>>)
        ELSE IF Truthy(Optional_isPresent(h, this).val) THEN Return(h, h[this], <<>>)
        ELSE IF supplied.st = "throw" THEN supplied
        ELSE Return(h, IF isPresent(supplied.val) THEN supplied.val ELSE Null,
                    supplied.calls)

\* as Optional#orElseNull, the identity returned as it is stored
Optional_orElseNull_Raw(h, this) == Return(h, h[this], <<>>)

Optional_orElseNull(h, this) == Optional_orElse(h, this, Null)

\* as Optional#fallback, the two branches exchanged
Optional_fallback_Swapped(h, this, other) ==
    LET check == requireArgument(other, "other")
    IN  IF Failed(check) THEN Throw(h, check, <<>>)
        ELSE IF Truthy(Optional_isPresent(h, this).val) THEN Return(h, other, <<>>)
        ELSE Return(h, Opt(this), <<>>)

\* as Optional#fallback, other checked only where it is used
Optional_fallback_Lazy(h, this, other) ==
    LET check == requireArgument(other, "other")
    IN  IF Truthy(Optional_isPresent(h, this).val) THEN Return(h, Opt(this), <<>>)
        ELSE IF Failed(check) THEN Throw(h, check, <<>>)
        ELSE Return(h, other, <<>>)

Optional_fallback(h, this, other) ==
    LET check == requireArgument(other, "other")
    IN  IF Failed(check) THEN Throw(h, check, <<>>)
        ELSE IF Truthy(Optional_isPresent(h, this).val) THEN Return(h, Opt(this), <<>>)
        ELSE Return(h, other, <<>>)

Optional_supplyFallback(h, this, supplier) ==
    LET check == requireArgument(supplier, "supplier")
        supplied == Call(h, supplier, Undefined, Undefined, <<>>)
        returned == require(supplied.val,
                            "Provided supplier returned empty value instead of optional")
    IN  IF Failed(check) THEN Throw(h, check, <<>>)
        ELSE IF Truthy(Optional_isPresent(h, this).val) THEN Return(h, Opt(this), <<>>)
        ELSE IF supplied.st = "throw" THEN supplied
        ELSE IF Failed(returned) THEN Throw(h, returned, supplied.calls)
        ELSE Return(h, supplied.val, supplied.calls)

\* as Optional#ifPresent, the consumer validated where it is to be invoked
Optional_ifPresent_Lazy(h, this, consumer) ==
    LET check == requireArgument(consumer, "consumer")
        consumed == Call(h, consumer, h[this], Undefined, <<>>)
    IN  IF ~Truthy(Optional_isPresent(h, this).val) THEN Return(h, Opt(this), <<>>)
        ELSE IF Failed(check) THEN Throw(h, check, <<>>)
        ELSE IF consumed.st = "throw" THEN consumed
        ELSE Return(h, Opt(this), consumed.calls)

Optional_ifPresent(h, this, consumer) ==
    LET check == requireArgument(consumer, "consumer")
        consumed == Call(h, consumer, h[this], Undefined, <<>>)
    IN  IF Failed(check) THEN Throw(h, check, <<>>)
        ELSE IF ~Truthy(Optional_isPresent(h, this).val) THEN Return(h, Opt(this), <<>>)
        ELSE IF consumed.st = "throw" THEN consumed
        ELSE Return(h, Opt(this), consumed.calls)

\* as Optional#ifAbsent, the identity checked by truthiness
Optional_ifAbsent_Falsy(h, this, action) ==
    LET check == requireArgument(action, "action")
        acted == Call(h, action, Undefined, Undefined, <<>>)
    IN  IF Failed(check) THEN Throw(h, check, <<>>)
        ELSE IF Truthy(h[this]) THEN Return(h, Opt(this), <<>>)
        ELSE IF acted.st = "throw" THEN acted
        ELSE Return(h, Opt(this), acted.calls)

Optional_ifAbsent(h, this, action) ==
    LET check == requireArgument(action, "action")
        acted == Call(h, action, Undefined, Undefined, <<>>)
    IN  IF Failed(check) THEN Throw(h, check, <<>>)
        ELSE IF ~Truthy(Optional_isAbsent(h, this).val) THEN Return(h, Opt(this), <<>>)
        ELSE IF acted.st = "throw" THEN acted
        ELSE Return(h, Opt(this), acted.calls)

\* as Optional#peek, one of the two chosen by the truthiness of the identity
Optional_peek_Truthy(h, this, onPresent, onAbsent) ==
    LET checkPresent == requireArgument(onPresent, "consumer")
        checkAbsent == requireArgument(onAbsent, "action")
        fired == IF Truthy(h[this])
                 THEN Call(h, onPresent, h[this], Undefined, <<>>)
                 ELSE Call(h, onAbsent, Undefined, Undefined, <<>>)
    IN  IF Failed(checkPresent) THEN Throw(h, checkPresent, <<>>)
        ELSE IF Failed(checkAbsent) THEN Throw(h, checkAbsent, <<>>)
        ELSE IF fired.st = "throw" THEN fired
        ELSE Return(h, Opt(this), fired.calls)

\* this.ifPresent(onPresent).ifAbsent(onAbsent)
Optional_peek(h, this, onPresent, onAbsent) ==
    LET presented == Optional_ifPresent(h, this, onPresent)
    IN  IF presented.st = "throw" THEN presented
        ELSE After(presented.calls,
                   Optional_ifAbsent(presented.heap, presented.val.v, onAbsent))

\* a == b on the values of the model: null and undefined equal each other,
\* and a number, a boolean and a string are compared as numbers (0, false
\* and '' are equal)
LooseEquals(a, b) ==
    \/ a = b
    \/ a \in { Null, Undefined } /\ b \in { Null, Undefined }
    \/ /\ a.kind \in { "num", "bool", "str" }
       /\ b.kind \in { "num", "bool", "str" }
       /\ a.v = 0 /\ b.v = 0

\* as Optional#equals, the identities compared with ==
Optional_equals_Loose(h, this, other, comparator) ==
    LET present == Truthy(Optional_isPresent(h, this).val)
    IN  IF other.kind # "opt" THEN Throw(h, Error("TypeError"), <<>>)
        ELSE IF present # Truthy(Optional_isPresent(h, other.v).val)
             THEN Return(h, Bool(FALSE), <<>>)
        ELSE IF ~present THEN Return(h, Bool(TRUE), <<>>)
        ELSE IF Truthy(comparator)
             THEN Call(h, comparator, h[this], h[other.v], <<>>)
        ELSE Return(h, Bool(LooseEquals(h[this], h[other.v])), <<>>)

\* other.isPresent() and other.get() are method calls on other: a TypeError
\* when other is not an Optional.
Optional_equals(h, this, other, comparator) ==
    LET present == Truthy(Optional_isPresent(h, this).val)
        opposite == Optional_get(h, other.v)
    IN  IF other.kind # "opt" THEN Throw(h, Error("TypeError"), <<>>)
        ELSE IF present # Truthy(Optional_isPresent(h, other.v).val)
             THEN Return(h, Bool(FALSE), <<>>)
        ELSE IF ~present THEN Return(h, Bool(TRUE), <<>>)
        ELSE IF opposite.st = "throw" THEN opposite
        ELSE IF Truthy(comparator)
             THEN Call(h, comparator, h[this], opposite.val, <<>>)
        ELSE Return(h, Bool(StrictEquals(h[this], opposite.val)), <<>>)

\* `${identity}`: the string conversion of a template literal
TemplateString(x) ==
    CASE x.kind = "num" -> (IF x.v = 0 THEN "0" ELSE "1")
      [] x.kind = "bool" -> (IF x.v = 0 THEN "false" ELSE "true")
      [] x.kind = "str" -> (IF x.v = 0 THEN "" ELSE "a")
      [] x.kind = "null" -> "null"
      [] x.kind = "undefined" -> "undefined"
      [] OTHER -> "[object Object]"

\* as Optional#toString, presence read as identity !== null
Optional_toString_NullOnly(h, this) ==
    LET fill == IF h[this] # Null
                THEN "identity=" \o TemplateString(h[this])
                ELSE "empty"
    IN  ReturnString(h, "Optional {" \o fill \o "}", <<>>)

Optional_toString(h, this) ==
    LET fill == IF Truthy(Optional_isPresent(h, this).val)
                THEN "identity=" \o TemplateString(h[this])
                ELSE "empty"
    IN  ReturnString(h, "Optional {" \o fill \o "}", <<>>)

\* receiver.op(a, b): the method named op
Method(op, h, this, a, b) ==
    CASE op = "map" -> Optional_map(h, this, a)
      [] op = "flatMap" -> Optional_flatMap(h, this, a)
      [] op = "filter" -> Optional_filter(h, this, a)
      [] op = "satisfies" -> Optional_satisfies(h, this, a)
      [] op = "dissatisfies" -> Optional_dissatisfies(h, this, a)
      [] op = "contains" -> Optional_contains(h, this, a, b)
      [] op = "get" -> Optional_get(h, this)
      [] op = "orElse" -> Optional_orElse(h, this, a)
      [] op = "orElseSupply" -> Optional_orElseSupply(h, this, a)
      [] op = "orElseThrow" -> Optional_orElseThrow(h, this, a)
      [] op = "orElseNull" -> Optional_orElseNull(h, this)
      [] op = "fallback" -> Optional_fallback(h, this, a)
      [] op = "supplyFallback" -> Optional_supplyFallback(h, this, a)
      [] op = "isPresent" -> Optional_isPresent(h, this)
      [] op = "isAbsent" -> Optional_isAbsent(h, this)
      [] op = "ifPresent" -> Optional_ifPresent(h, this, a)
      [] op = "ifAbsent" -> Optional_ifAbsent(h, this, a)
      [] op = "peek" -> Optional_peek(h, this, a, b)
      [] op = "equals" -> Optional_equals(h, this, a, b)
      [] op = "toString" -> Optional_toString(h, this)

-----------------------------------------------------------------------------
(* The inputs of the calls *)

Absents == { Null, Undefined }

\* what a caller wraps, compares with or falls back to: the absent values, a
\* falsy value and an object
Values == Absents \cup { Num(0), Obj(1) }

\* every kind of value: the falsy 0, false and '', the truthy ones, two
\* objects (or arrays)
AllValues ==
    Absents \cup { Num(0), Num(1), Bool(FALSE), Bool(TRUE), Str(0), Str(1), Obj(1),
                   Obj(2) }

\* what equality tells apart: the absent values, two falsy values of two
\* types, two objects
ComparedValues == Absents \cup { Num(0), Str(0), Obj(1), Obj(2) }

Optionals(h) == { Opt(r) : r \in DOMAIN h }

Functions(results) == { Const(r) : r \in results }

Transformers == Absents \cup { Identity } \cup Functions(Absents \cup { Num(0) })

\* a transformer of flatMap returns an Optional the caller holds, or what it
\* should not: an absent value, a bare value
OptionalTransformers(h) ==
    Absents \cup Functions(Absents \cup { Num(0) } \cup Optionals(h))

Predicates == Absents \cup Functions({ Bool(TRUE), Bool(FALSE) })

\* the pure functions of the laws: the predicates that look at the identity
\* (x => x, x => !x) with the constant ones, and the transformers that return
\* a value, the identity, its negation, null or undefined
LawPredicates == { Identity, Not } \cup Functions({ Bool(TRUE), Bool(FALSE) })

LawTransformers ==
    { Identity, Not } \cup Functions(Absents \cup { Num(0), Num(1) })

\* Undefined: no comparator is passed
Comparators == { Undefined } \cup Functions({ Bool(TRUE), Bool(FALSE) })

Suppliers == Absents \cup Functions(Values)

OptionalSuppliers(h) ==
    Absents \cup Functions(Absents \cup { Num(0) } \cup Optionals(h))

ErrorSuppliers == Absents \cup Functions({ Error("caller's error"), Null })

Consumers == Absents \cup Functions({ Undefined })

\* an action of ifAbsent and peek that is another function than the consumer
Actions == Absents \cup Functions({ Null })

Others(h) == Absents \cup { Num(0) } \cup Optionals(h)

Sources == Absents \cup { Array(i) : i \in DOMAIN Arrays }

-----------------------------------------------------------------------------
(* The calls *)

NoCall ==
    [op |-> "none", this |-> 0, a |-> Undefined, b |-> Undefined, st |-> "return",
     val |-> Undefined, str |-> "", calls |-> <<>>, pre |-> 0]

Init ==
    /\ heap = <<>>
    /\ call = NoCall

\* The call op(a, b) of the namespace (this = 0) or on the receiver this
\* ended as out: the heap is the heap it left, and call says what it did;
\* pre is the number of Optionals there were before it.
Done(op, this, a, b, out) ==
    /\ Len(out.heap) <= MaxHeap
    /\ heap' = out.heap
    /\ call' = [op |-> op, this |-> this, a |-> a, b |-> b, st |-> out.st,
                val |-> out.val, str |-> out.str, calls |-> out.calls,
                pre |-> Len(heap)]

CallEmpty == Done("empty", 0, Undefined, Undefined, empty(heap))

CallOf(inputs) == \E v \in inputs : Done("of", 0, v, Undefined, of(heap, v))

CallOfNullable(inputs) ==
    \E v \in inputs : Done("ofNullable", 0, v, Undefined, ofNullable(heap, v))

CallFirst == \E s \in Sources : Done("first", 0, s, Undefined, first(heap, s))

CallLast == \E s \in Sources : Done("last", 0, s, Undefined, last(heap, s))

CallFreeMap ==
    \E v \in Values, t \in Transformers :
        Done("Optional.map", 0, v, t, map(heap, v, t))

CallFreeFlatMap ==
    \E v \in Values, t \in OptionalTransformers(heap) :
        Done("Optional.flatMap", 0, v, t, flatMap(heap, v, t))

CallMap(transformers) ==
    \E this \in DOMAIN heap, t \in transformers :
        Done("map", this, t, Undefined, Optional_map(heap, this, t))

CallFlatMap ==
    \E this \in DOMAIN heap, t \in OptionalTransformers(heap) :
        Done("flatMap", this, t, Undefined, Optional_flatMap(heap, this, t))

CallFilter(predicates) ==
    \E this \in DOMAIN heap, p \in predicates :
        Done("filter", this, p, Undefined, Optional_filter(heap, this, p))

CallSatisfies ==
    \E this \in DOMAIN heap, p \in Predicates :
        Done("satisfies", this, p, Undefined, Optional_satisfies(heap, this, p))

CallDissatisfies ==
    \E this \in DOMAIN heap, p \in Predicates :
        Done("dissatisfies", this, p, Undefined,
             Optional_dissatisfies(heap, this, p))

CallContains(values) ==
    \E this \in DOMAIN heap, v \in values, c \in Comparators :
        Done("contains", this, v, c, Optional_contains(heap, this, v, c))

CallGet ==
    \E this \in DOMAIN heap :
        Done("get", this, Undefined, Undefined, Optional_get(heap, this))

CallOrElse ==
    \E this \in DOMAIN heap, v \in Values :
        Done("orElse", this, v, Undefined, Optional_orElse(heap, this, v))

CallOrElseSupply ==
    \E this \in DOMAIN heap, s \in Suppliers :
        Done("orElseSupply", this, s, Undefined,
             Optional_orElseSupply(heap, this, s))

CallOrElseThrow ==
    \E this \in DOMAIN heap, s \in ErrorSuppliers :
        Done("orElseThrow", this, s, Undefined,
             Optional_orElseThrow(heap, this, s))

CallOrElseNull ==
    \E this \in DOMAIN heap :
        Done("orElseNull", this, Undefined, Undefined,
             Optional_orElseNull(heap, this))

CallFallback ==
    \E this \in DOMAIN heap, o \in Others(heap) :
        Done("fallback", this, o, Undefined, Optional_fallback(heap, this, o))

CallSupplyFallback ==
    \E this \in DOMAIN heap, s \in OptionalSuppliers(heap) :
        Done("supplyFallback", this, s, Undefined,
             Optional_supplyFallback(heap, this, s))

CallIsPresent ==
    \E this \in DOMAIN heap :
        Done("isPresent", this, Undefined, Undefined,
             Optional_isPresent(heap, this))

CallIsAbsent ==
    \E this \in DOMAIN heap :
        Done("isAbsent", this, Undefined, Undefined,
             Optional_isAbsent(heap, this))

CallIfPresent(consumers) ==
    \E this \in DOMAIN heap, c \in consumers :
        Done("ifPresent", this, c, Undefined, Optional_ifPresent(heap, this, c))

CallIfAbsent(actions) ==
    \E this \in DOMAIN heap, c \in actions :
        Done("ifAbsent", this, c, Undefined, Optional_ifAbsent(heap, this, c))

CallPeek(consumers, actions) ==
    \E this \in DOMAIN heap, c \in consumers, d \in actions :
        Done("peek", this, c, d, Optional_peek(heap, this, c, d))

CallEquals ==
    \E this \in DOMAIN heap, o \in Optionals(heap), c \in Comparators :
        Done("equals", this, o, c, Optional_equals(heap, this, o, c))

CallToString ==
    \E this \in DOMAIN heap :
        Done("toString", this, Undefined, Undefined,
             Optional_toString(heap, this))

Next ==
    \/ CallEmpty
    \/ CallOf(Values)
    \/ CallOfNullable(Values)
    \/ CallFirst
    \/ CallLast
    \/ CallFreeMap
    \/ CallFreeFlatMap
    \/ CallMap(Transformers)
    \/ CallFlatMap
    \/ CallFilter(Predicates)
    \/ CallSatisfies
    \/ CallDissatisfies
    \/ CallContains(Values)
    \/ CallGet
    \/ CallOrElse
    \/ CallOrElseSupply
    \/ CallOrElseThrow
    \/ CallOrElseNull
    \/ CallFallback
    \/ CallSupplyFallback
    \/ CallIsPresent
    \/ CallIsAbsent
    \/ CallIfPresent(Consumers)
    \/ CallIfAbsent(Consumers)
    \/ CallPeek(Consumers, Consumers)
    \/ CallEquals
    \/ CallToString

Spec == Init /\ [][Next]_vars

\* The factories on every kind of value, and the queries of what they made.
NextValues ==
    \/ CallEmpty
    \/ CallOf(AllValues)
    \/ CallOfNullable(AllValues)
    \/ CallIsPresent
    \/ CallIsAbsent
    \/ CallGet
    \/ CallOrElseNull

SpecValues == Init /\ [][NextValues]_vars

\* The side effects on every kind of value, the consumer and the action being
\* two functions.
NextEffects ==
    \/ CallEmpty
    \/ CallOf(AllValues)
    \/ CallOfNullable(AllValues)
    \/ CallIfPresent(Consumers)
    \/ CallIfAbsent(Actions)
    \/ CallPeek(Consumers, Actions)

SpecEffects == Init /\ [][NextEffects]_vars

\* The comparisons, of values of several types and of two objects.
NextEquality ==
    \/ CallEmpty
    \/ CallOf(ComparedValues)
    \/ CallOfNullable(ComparedValues)
    \/ CallEquals
    \/ CallContains(ComparedValues)

SpecEquality == Init /\ [][NextEquality]_vars

\* filter and map with pure functions, on every kind of value.
NextLaws ==
    \/ CallEmpty
    \/ CallOf(AllValues)
    \/ CallOfNullable(AllValues)
    \/ CallFilter(LawPredicates)
    \/ CallMap(LawTransformers)

SpecLaws == Init /\ [][NextLaws]_vars

-----------------------------------------------------------------------------
(* The vocabulary of the properties *)

\* a materialized value: neither null nor undefined
Materialized(x) == x \notin Absents

\* the error classes of the specification, by the messages of the source
InvalidArgument ==
    { Error("Absent identity provided"),
      Error("Absent value provided"),
      Error("Absent value was passed as source argument"),
      Error("Absent value was passed as transformer argument"),
      Error("Absent value was passed as predicate argument"),
      Error("Absent value was passed as supplier argument"),
      Error("Absent value was passed as other argument"),
      Error("Absent value was passed as consumer argument"),
      Error("Absent value was passed as action argument") }

InvalidState ==
    { Error("Transformer returned absent value instead of IOptional"),
      Error("Identity is not present"),
      Error("Provided supplier returned empty value instead of optional") }

\* the call of the state was made on a receiver, and the receiver holds x
OnReceiver == call.this \in DOMAIN heap
Receiver == heap[call.this]

\* the call of the state constructed an Optional
Constructed == Len(heap) > call.pre

\* the call of the state returned (a reference to) an Optional
ReturnedOptional ==
    call.st = "return" /\ call.val.kind = "opt" /\ call.val.v \in DOMAIN heap

\* the Optional r answers isPresent() with true, isAbsent() with false
AnswersPresent(r) ==
    /\ Optional_isPresent(heap, r) = Return(heap, Bool(TRUE), <<>>)
    /\ Optional_isAbsent(heap, r) = Return(heap, Bool(FALSE), <<>>)

AnswersAbsent(r) ==
    /\ Optional_isPresent(heap, r) = Return(heap, Bool(FALSE), <<>>)
    /\ Optional_isAbsent(heap, r) = Return(heap, Bool(TRUE), <<>>)

\* the Optional r is present and get() returns x
Holds(r, x) == AnswersPresent(r) /\ Optional_get(heap, r) = Return(heap, x, <<>>)

\* f was invoked once, with the one argument x, and nothing else was
InvokedOnceWith(f, x) == call.calls = << Invocation(f, x, Undefined) >>

Callable(f) == f.kind = "fn"

\* the heap before the call of the state, and the call's outcome
Before == SubSeq(heap, 1, call.pre)
Outcome ==
    [st |-> call.st, val |-> call.val, str |-> call.str, calls |-> call.calls,
     heap |-> heap]

\* the observable state of the Optional r of the heap h: its presence and,
\* if present, its identity
State(h, r) ==
    [present |-> isPresent(h[r]), identity |-> IF isPresent(h[r]) THEN h[r] ELSE Null]

\* the observable state of the Optional an outcome returned
Result(out) ==
    IF out.st = "return" /\ out.val.kind = "opt" /\ out.val.v \in DOMAIN out.heap
    THEN State(out.heap, out.val.v)
    ELSE [present |-> FALSE, identity |-> Val("none", 0)]

\* what a caller observes of an outcome: how it ended, the invocations made,
\* what was returned or thrown and, of a returned Optional, its identity
Observed(out) ==
    LET optional == /\ out.st = "return" /\ out.val.kind = "opt"
                    /\ out.val.v \in DOMAIN out.heap
    IN  [st |-> out.st, calls |-> out.calls, str |-> out.str, optional |-> optional,
         val |-> IF optional THEN out.heap[out.val.v] ELSE out.val]

-----------------------------------------------------------------------------
(* The properties *)

\* C1: of(v) returns, for every v that is neither null nor undefined (0,
\* false, '' and objects included), an Optional that answers isPresent()
\* with true, isAbsent() with false and get() with v; for null and undefined
\* it throws 'Absent identity provided' and constructs no Optional.
C1_OfAcceptsMaterialized ==
    call.op = "of" =>
        IF Materialized(call.a)
        THEN ReturnedOptional /\ Constructed /\ Holds(call.val.v, call.a)
        ELSE /\ call.st = "throw"
             /\ call.val = Error("Absent identity provided")
             /\ call.val \in InvalidArgument
             /\ ~Constructed

C1_Witness ==
    /\ call.op = "of" /\ call.a = Str(0) /\ call.st = "return"
    /\ heap[call.val.v] = Str(0)

\* C2: ofNullable(v) never throws, and the Optional it returns is present
\* exactly when v is neither null nor undefined (so for 0, false and '').
C2_OfNullablePresence ==
    call.op = "ofNullable" =>
        /\ ReturnedOptional /\ Constructed
        /\ IF Materialized(call.a) THEN AnswersPresent(call.val.v)
                                   ELSE AnswersAbsent(call.val.v)

C2_Witness ==
    /\ call.op = "ofNullable" /\ call.a = Undefined /\ call.st = "return"
    /\ \E r \in DOMAIN heap : heap[r] = Bool(FALSE)

\* C3: every Optional constructed, by whatever factory or method, is either
\* present or absent: isPresent() and isAbsent() answer with opposite
\* booleans, and get() of a present one returns a materialized value; what a
\* call returns as an Optional is one of them.
C3_TwoStates ==
    /\ \A r \in DOMAIN heap :
          /\ AnswersPresent(r) \/ AnswersAbsent(r)
          /\ AnswersPresent(r) =>
                /\ Optional_get(heap, r).st = "return"
                /\ Materialized(Optional_get(heap, r).val)
    /\ call.st = "return" /\ call.val.kind = "opt" => call.val.v \in DOMAIN heap

C3_Witness ==
    /\ call.op = "filter" /\ Constructed
    /\ \E r, q \in DOMAIN heap : heap[r] = Num(0) /\ heap[q] = Null

\* C4: no call, returning or throwing, changes an Optional that exists: its
\* identity stays, and it answers isPresent() and orElseNull() as before.
C4_Immutable ==
    [][\A r \in DOMAIN heap :
          /\ r \in DOMAIN heap'
          /\ heap'[r] = heap[r]
          /\ Optional_isPresent(heap', r).val = Optional_isPresent(heap, r).val
          /\ Optional_orElseNull(heap', r).val = Optional_orElseNull(heap, r).val]_vars

C4_Witness ==
    /\ call.op = "filter" /\ OnReceiver /\ Constructed
    /\ Materialized(Receiver)
    /\ call.a = Const(Bool(FALSE))

\* C5: on an absent receiver map, flatMap, filter, ifPresent, satisfies,
\* dissatisfies and contains invoke no callback; and map, flatMap and filter
\* with a callable callback return an absent Optional, so that the next call
\* of a chain is again one on an absent receiver.
C5_AbsentRunsNoCallback ==
    /\ call.op \in { "map", "flatMap", "filter", "ifPresent", "satisfies",
                     "dissatisfies", "contains" }
    /\ OnReceiver
    /\ ~Materialized(Receiver)
    => /\ call.calls = <<>>
       /\ call.op \in { "map", "flatMap", "filter" } /\ Callable(call.a) =>
             ReturnedOptional /\ AnswersAbsent(call.val.v)

C5_Witness ==
    /\ call.op = "filter" /\ OnReceiver /\ Receiver = Undefined
    /\ call.a = Const(Bool(TRUE)) /\ call.st = "return"

\* C6: map on a present receiver invokes the transformer once, with the
\* identity; it returns a new Optional, present and holding what the
\* transformer returned when that is materialized, absent when it is null
\* or undefined.
C6_MapPresent ==
    call.op = "map" /\ OnReceiver /\ Materialized(Receiver) /\ Callable(call.a) =>
        LET result == Apply(call.a, Receiver, Undefined)
        IN  /\ InvokedOnceWith(call.a, Receiver)
            /\ ReturnedOptional /\ Constructed
            /\ IF Materialized(result) THEN Holds(call.val.v, result)
                                       ELSE AnswersAbsent(call.val.v)

C6_Witness ==
    /\ call.op = "map" /\ OnReceiver /\ Receiver = Num(0)
    /\ call.a = Const(Undefined) /\ call.st = "return"

\* C7: flatMap on a present receiver, the transformer returning an Optional,
\* invokes the transformer once with the identity and returns that very
\* Optional (present or empty), constructing none.
C7_FlatMapReturnsProduced ==
    /\ call.op = "flatMap" /\ OnReceiver /\ Materialized(Receiver)
    /\ Callable(call.a)
    /\ Apply(call.a, Receiver, Undefined).kind = "opt"
    => /\ InvokedOnceWith(call.a, Receiver)
       /\ ReturnedOptional
       /\ call.val = Apply(call.a, Receiver, Undefined)
       /\ ~Constructed

C7_Witness ==
    /\ call.op = "flatMap" /\ OnReceiver /\ Materialized(Receiver)
    /\ Callable(call.a) /\ call.st = "return" /\ call.val.kind = "opt"
    /\ call.val.v # call.this
    /\ heap[call.val.v] = Null

\* the value flatMap works on and its transformer, in the free function's
\* call and in the method's
FlatMapCall == call.op \in { "flatMap", "Optional.flatMap" }
FlatMapValue == IF call.this = 0 THEN call.a ELSE Receiver
FlatMapTransformer == IF call.this = 0 THEN call.b ELSE call.a

C9_Filter ==
    call.op = "filter" /\ OnReceiver /\ Callable(call.a) =>
        IF Materialized(Receiver)
        THEN /\ InvokedOnceWith(call.a, Receiver)
             /\ ReturnedOptional
             /\ IF Apply(call.a, Receiver, Undefined) = Bool(TRUE)
                THEN call.val = Opt(call.this) /\ ~Constructed
                ELSE call.val # Opt(call.this) /\ AnswersAbsent(call.val.v)
        ELSE /\ call.calls = <<>>
             /\ call.st = "return" /\ call.val = Opt(call.this)
             /\ ~Constructed

C9_Witness ==
    /\ call.op = "filter" /\ OnReceiver /\ Receiver = Num(0)
    /\ call.a = Const(Bool(TRUE)) /\ call.val = Opt(call.this)

\* C10: on a present receiver get() and orElseThrow(s) return the identity
\* and s is not invoked; on an absent one orElseThrow(s) invokes s once and
\* throws what s returned, get() throws 'Identity is not present', and
\* neither returns.
C10_GetAndOrElseThrow ==
    /\ call.op = "get" /\ OnReceiver =>
          IF Materialized(Receiver)
          THEN call.st = "return" /\ call.val = Receiver
          ELSE /\ call.st = "throw"
               /\ call.val = Error("Identity is not present")
               /\ call.val \in InvalidState
    /\ call.op = "orElseThrow" /\ OnReceiver /\ Callable(call.a) =>
          IF Materialized(Receiver)
          THEN call.st = "return" /\ call.val = Receiver /\ call.calls = <<>>
          ELSE /\ call.st = "throw"
               /\ call.val = Apply(call.a, Undefined, Undefined)
               /\ InvokedOnceWith(call.a, Undefined)

C10_Witness ==
    /\ call.op = "orElseThrow" /\ OnReceiver /\ Receiver = Null
    /\ call.a = Const(Error("caller's error")) /\ call.st = "throw"

\* C11, as claimed: orElse(value) returns the identity of a present
\* receiver and otherwise value as it was passed, null and undefined
\* included.
C11_AsClaimed ==
    call.op = "orElse" /\ OnReceiver =>
        /\ call.st = "return"
        /\ call.val = IF Materialized(Receiver) THEN Receiver ELSE call.a

\* C11, amended: orElse(value) returns the identity of a present receiver;
\* of an absent one it returns value when value is materialized, and null
\* when value is null or undefined (undefined is not returned as passed).
C11_OrElse ==
    call.op = "orElse" /\ OnReceiver =>
        /\ call.st = "return"
        /\ call.calls = <<>> /\ ~Constructed
        /\ call.val = IF Materialized(Receiver) THEN Receiver
                      ELSE IF Materialized(call.a) THEN call.a
                      ELSE Null

C11_Witness ==
    /\ call.op = "orElse" /\ OnReceiver /\ Receiver = Null
    /\ call.a = Undefined /\ call.val = Null

\* C12: orElseSupply(supplier), the supplier callable: a present receiver
\* returns its identity and the supplier is not invoked; an absent one
\* invokes the supplier once and returns its result when materialized, null
\* when the result is null or undefined.
C12_OrElseSupply ==
    call.op = "orElseSupply" /\ OnReceiver /\ Callable(call.a) =>
        LET supplied == Apply(call.a, Undefined, Undefined)
        IN  /\ call.st = "return"
            /\ IF Materialized(Receiver)
               THEN call.val = Receiver /\ call.calls = <<>>
               ELSE /\ InvokedOnceWith(call.a, Undefined)
                    /\ call.val = IF Materialized(supplied) THEN supplied ELSE Null

C12_Witness ==
    /\ call.op = "orElseSupply" /\ OnReceiver /\ Receiver = Undefined
    /\ call.a = Const(Undefined) /\ call.val = Null
    /\ Len(call.calls) = 1

\* C13: orElseNull() returns the identity of every present receiver, and
\* null, never undefined, of every absent one, that of ofNullable(undefined)
\* included.
C13_OrElseNull ==
    call.op = "orElseNull" /\ OnReceiver =>
        /\ call.st = "return"
        /\ call.val = IF Materialized(Receiver) THEN Receiver ELSE Null
        /\ call.val # Undefined

C13_Witness ==
    /\ call.op = "orElseNull" /\ OnReceiver /\ Receiver = Undefined
    /\ call.val = Null

\* C14: fallback(other), other an Optional, and supplyFallback(supplier),
\* the supplier returning an Optional: a present receiver is returned itself
\* and the supplier is not invoked; of an absent receiver fallback returns
\* other itself, and supplyFallback invokes the supplier once and returns
\* the very Optional it returned. No Optional is constructed.
C14_Fallback ==
    /\ call.op = "fallback" /\ OnReceiver /\ call.a.kind = "opt" =>
          /\ call.st = "return" /\ call.calls = <<>> /\ ~Constructed
          /\ call.val = IF Materialized(Receiver) THEN Opt(call.this) ELSE call.a
    /\ /\ call.op = "supplyFallback" /\ OnReceiver /\ Callable(call.a)
       /\ Apply(call.a, Undefined, Undefined).kind = "opt"
       => /\ call.st = "return" /\ ~Constructed
          /\ IF Materialized(Receiver)
             THEN call.val = Opt(call.this) /\ call.calls = <<>>
             ELSE /\ call.val = Apply(call.a, Undefined, Undefined)
                  /\ InvokedOnceWith(call.a, Undefined)

C14_Witness ==
    /\ call.op = "supplyFallback" /\ OnReceiver /\ Receiver = Null
    /\ Callable(call.a) /\ call.st = "return"
    /\ call.val.kind = "opt" /\ call.val.v # call.this
    /\ heap[call.val.v] = Num(0)

C16_IfPresentIfAbsent ==
    call.op \in { "ifPresent", "ifAbsent" } /\ OnReceiver /\ Callable(call.a) =>
        /\ call.st = "return" /\ call.val = Opt(call.this) /\ ~Constructed
        /\ call.op = "ifPresent" =>
              call.calls = IF Materialized(Receiver)
                           THEN << Invocation(call.a, Receiver, Undefined) >>
                           ELSE <<>>
        /\ call.op = "ifAbsent" =>
              call.calls = IF Materialized(Receiver)
                           THEN <<>>
                           ELSE << Invocation(call.a, Undefined, Undefined) >>

C16_Witness ==
    /\ call.op = "ifAbsent" /\ OnReceiver /\ Receiver = Str(0)
    /\ Callable(call.a) /\ call.calls = <<>> /\ call.st = "return"

\* C17: peek(onPresent, onAbsent), both callable, invokes exactly one of
\* them: onPresent once with the identity on a present receiver (0, false
\* and '' included), onAbsent once on an absent one; it returns the receiver
\* itself. onPresent comes first: its invocation on a present receiver is
\* made even when onAbsent is then found absent.
C17_PeekFiresOne ==
    /\ call.op = "peek" /\ OnReceiver /\ Callable(call.a) /\ Callable(call.b) =>
          /\ call.st = "return" /\ call.val = Opt(call.this) /\ ~Constructed
          /\ call.calls = IF Materialized(Receiver)
                          THEN << Invocation(call.a, Receiver, Undefined) >>
                          ELSE << Invocation(call.b, Undefined, Undefined) >>
    /\ /\ call.op = "peek" /\ OnReceiver /\ Callable(call.a)
       /\ ~Materialized(call.b) /\ Materialized(Receiver)
       => call.calls = << Invocation(call.a, Receiver, Undefined) >>

C17_Witness ==
    /\ call.op = "peek" /\ OnReceiver /\ Receiver = Bool(FALSE)
    /\ Callable(call.a) /\ Callable(call.b) /\ call.a # call.b
    /\ call.calls = << Invocation(call.a, Bool(FALSE), Undefined) >>

\* C18: equals(other, comparator?) on two Optionals returns true when both
\* are absent (null and undefined alike), false when one only is, in either
\* order; when both are present it returns the strict equality of the two
\* identities if no comparator is passed, and what comparator(this identity,
\* other identity) returns otherwise, the comparator invoked once, and only
\* then.
C18_Equals ==
    call.op = "equals" /\ OnReceiver /\ call.a.kind = "opt" =>
        LET mine == Receiver
            theirs == heap[call.a.v]
        IN  /\ call.st = "return" /\ ~Constructed
            /\ IF ~Materialized(mine) /\ ~Materialized(theirs)
               THEN call.val = Bool(TRUE) /\ call.calls = <<>>
               ELSE IF ~Materialized(mine) \/ ~Materialized(theirs)
               THEN call.val = Bool(FALSE) /\ call.calls = <<>>
               ELSE IF call.b = Undefined
               THEN call.val = Bool(mine = theirs) /\ call.calls = <<>>
               ELSE /\ call.val = Apply(call.b, mine, theirs)
                    /\ call.calls = << Invocation(call.b, mine, theirs) >>

C18_Witness ==
    /\ call.op = "equals" /\ OnReceiver /\ call.a.kind = "opt"
    /\ Receiver = Obj(1) /\ heap[call.a.v] = Obj(2)
    /\ call.b = Undefined /\ call.val = Bool(FALSE)

\* C19: contains(value, comparator?) returns false on an absent receiver,
\* for value null or undefined too, and invokes no comparator; on a present
\* one it returns the strict equality of identity and value if no comparator
\* is passed, and otherwise what comparator(identity, value) returns, invoked
\* once, whether or not identity and value are equal.
C19_Contains ==
    call.op = "contains" /\ OnReceiver =>
        /\ call.st = "return" /\ ~Constructed
        /\ IF ~Materialized(Receiver)
           THEN call.val = Bool(FALSE) /\ call.calls = <<>>
           ELSE IF call.b = Undefined
           THEN call.val = Bool(Receiver = call.a) /\ call.calls = <<>>
           ELSE /\ call.val = Apply(call.b, Receiver, call.a)
                /\ call.calls = << Invocation(call.b, Receiver, call.a) >>

C19_Witness ==
    /\ call.op = "contains" /\ OnReceiver /\ Receiver = Undefined
    /\ call.a = Undefined /\ call.b = Undefined /\ call.val = Bool(FALSE)

\* C20: for a callable boolean predicate p, satisfies(p) and dissatisfies(p)
\* are both false on an absent receiver, p not invoked; on a present one
\* satisfies(p) is p(identity) and dissatisfies(p) its negation, p invoked
\* once by each call, so that exactly one of the two is true. The call made
\* is compared with the other method on the same receiver and predicate.
C20_SatisfiesDissatisfies ==
    call.op \in { "satisfies", "dissatisfies" } /\ OnReceiver /\ Callable(call.a) =>
        LET sat == Optional_satisfies(heap, call.this, call.a)
            dis == Optional_dissatisfies(heap, call.this, call.a)
            made == IF call.op = "satisfies" THEN sat ELSE dis
            once == << Invocation(call.a, Receiver, Undefined) >>
        IN  /\ call.st = made.st /\ call.val = made.val /\ call.calls = made.calls
            /\ sat.st = "return" /\ dis.st = "return" /\ ~Constructed
            /\ ~(sat.val = Bool(TRUE) /\ dis.val = Bool(TRUE))
            /\ IF Materialized(Receiver)
               THEN /\ sat.val = Apply(call.a, Receiver, Undefined)
                    /\ dis.val = Bool(sat.val = Bool(FALSE))
                    /\ sat.calls = once /\ dis.calls = once
               ELSE /\ sat.val = Bool(FALSE) /\ dis.val = Bool(FALSE)
                    /\ sat.calls = <<>> /\ dis.calls = <<>>

C20_Witness ==
    /\ call.op = "dissatisfies" /\ OnReceiver /\ Receiver = Null
    /\ call.a = Const(Bool(FALSE)) /\ call.val = Bool(FALSE)

\* C21: first(seq) and last(seq) fail with InvalidArgument for seq null or
\* undefined; for a seq of no elements they return an absent Optional; and
\* otherwise ofNullable of the element at index 0 (first) or length-1
\* (last): present with that element when it is materialized, absent when
\* it is null or undefined, whatever the other elements are.
C21_FirstLast ==
    call.op \in { "first", "last" } =>
        IF ~Materialized(call.a)
        THEN call.st = "throw" /\ call.val \in InvalidArgument /\ ~Constructed
        ELSE LET elements == Elements(call.a)
                 element == IF call.op = "first" THEN elements[1]
                            ELSE elements[Len(elements)]
             IN  /\ ReturnedOptional /\ Constructed /\ call.calls = <<>>
                 /\ IF Len(elements) = 0 THEN AnswersAbsent(call.val.v)
                    ELSE /\ ofNullable(SubSeq(heap, 1, call.pre), element).heap = heap
                         /\ IF Materialized(element)
                            THEN Holds(call.val.v, element)
                            ELSE AnswersAbsent(call.val.v)

C21_Witness ==
    /\ call.op = "first" /\ call.a.kind = "arr"
    /\ Elements(call.a) = << Null, Obj(1) >>
    /\ ReturnedOptional /\ AnswersAbsent(call.val.v)

\* C22: for every raw value v and callable transformer t, map(v, t) and
\* ofNullable(v).map(t) end alike: the same failure or the same presence and
\* identity of the Optional returned, t invoked as often and with the same
\* argument; and so do flatMap(v, t) and ofNullable(v).flatMap(t). It is
\* stated of each call of the free functions, compared with the method on
\* the wrapped value, and of each call of the methods, compared with the
\* free function on the receiver's identity.
C22_FreeAsMethods ==
    LET wrapped == ofNullable(Before, call.a)
    IN  /\ call.op = "Optional.map" /\ Callable(call.b) =>
               Observed(Outcome)
                   = Observed(Optional_map(wrapped.heap, wrapped.val.v, call.b))
        /\ call.op = "Optional.flatMap" /\ Callable(call.b) =>
               Observed(Outcome)
                   = Observed(Optional_flatMap(wrapped.heap, wrapped.val.v, call.b))
        /\ call.op = "map" /\ OnReceiver /\ Callable(call.a) =>
               Observed(Outcome) = Observed(map(Before, Receiver, call.a))
        /\ call.op = "flatMap" /\ OnReceiver /\ Callable(call.a) =>
               Observed(Outcome) = Observed(flatMap(Before, Receiver, call.a))

C22_Witness ==
    /\ call.op = "Optional.map" /\ call.a = Num(0) /\ call.b = Identity
    /\ ReturnedOptional /\ Holds(call.val.v, Num(0))
    /\ InvokedOnceWith(Identity, Num(0))

\* the name requireArgument gives the argument of the operation op
ArgumentName(op) ==
    CASE op \in { "orElseSupply", "orElseThrow", "supplyFallback" } -> "supplier"
      [] op = "fallback" -> "other"
      [] op = "filter" -> "predicate"
      [] op = "ifPresent" -> "consumer"
      [] op = "ifAbsent" -> "action"

\* C23: orElseSupply, orElseThrow, fallback, supplyFallback, filter,
\* ifPresent and ifAbsent called with a null or undefined argument fail with
\* the InvalidArgument error naming that argument, on a present and on an
\* absent receiver, on the paths that would not have used the argument too;
\* nothing is returned, invoked or constructed.
C23_ValidationUnconditional ==
    /\ call.op \in { "orElseSupply", "orElseThrow", "fallback", "supplyFallback",
                     "filter", "ifPresent", "ifAbsent" }
    /\ OnReceiver /\ ~Materialized(call.a)
    => /\ call.st = "throw"
       /\ call.val \in InvalidArgument
       /\ call.val = Error("Absent value was passed as " \o ArgumentName(call.op)
                               \o " argument")
       /\ call.calls = <<>> /\ ~Constructed

C23_Witness ==
    /\ call.op = "orElseSupply" /\ OnReceiver /\ Materialized(Receiver)
    /\ call.a = Null /\ call.st = "throw"
    /\ call.val = Error("Absent value was passed as supplier argument")

\* C24, as claimed: satisfies(predicate) and dissatisfies(predicate) called
\* with a null or undefined predicate fail with an InvalidArgument error, on
\* a present and on an absent receiver. The source does not validate the
\* predicate: on an absent receiver the call returns false, and on a present
\* one the runtime throws its TypeError on calling the predicate.
C24_AsClaimed ==
    /\ call.op \in { "satisfies", "dissatisfies" }
    /\ OnReceiver /\ ~Materialized(call.a)
    => call.st = "throw" /\ call.val \in InvalidArgument

\* C25: for every Optional opt and pure predicate p, opt.filter(p).filter(p)
\* has the observable state of opt.filter(p): the same presence and, if
\* present, the same identity. It is stated of each call of filter that
\* returned, filtered once more by the same predicate.
C25_FilterIdempotent ==
    call.op = "filter" /\ OnReceiver /\ Callable(call.a) =>
        LET again == Optional_filter(heap, call.val.v, call.a)
        IN  /\ ReturnedOptional
            /\ again.st = "return"
            /\ Result(again) = State(heap, call.val.v)

C25_Witness ==
    /\ call.op = "filter" /\ OnReceiver /\ call.a = Not
    /\ Receiver = Num(0) /\ ReturnedOptional /\ Holds(call.val.v, Num(0))

\* opt.map(f).map(g) and opt.map(x => g(f(x))), for the call opt.map(f) of
\* the state: the observable states of the two Optionals returned
Chained(g) == Result(Optional_map(heap, call.val.v, g))
Fused(g) == Result(Optional_map(Before, call.this, Compose(g, call.a)))

\* C26, as claimed: for every Optional opt and all pure functions f and g,
\* each returning a materialized value, null or undefined, opt.map(f).map(g)
\* and opt.map(x => g(f(x))) have the same presence and, if present, the
\* same identity.
C26_AsClaimed ==
    call.op = "map" /\ OnReceiver /\ Callable(call.a) =>
        /\ ReturnedOptional
        /\ \A g \in LawTransformers : Chained(g) = Fused(g)

\* C26, amended: the two are equal when opt is absent, when f returns a
\* materialized value for the identity, and when g returns null or undefined
\* for what f returned. When f returns null or undefined and g a
\* materialized value for it, opt.map(f).map(g) is absent, g never invoked,
\* and opt.map(x => g(f(x))) is present with g's result.
C26_MapFusion ==
    call.op = "map" /\ OnReceiver /\ Callable(call.a) =>
        /\ ReturnedOptional
        /\ \A g \in LawTransformers :
               LET mapped == Apply(call.a, Receiver, Undefined)
                   fused == Apply(g, mapped, Undefined)
               IN  IF \/ ~Materialized(Receiver)
                      \/ Materialized(mapped)
                      \/ ~Materialized(fused)
                   THEN Chained(g) = Fused(g)
                   ELSE /\ Chained(g) = [present |-> FALSE, identity |-> Null]
                        /\ Fused(g) = [present |-> TRUE, identity |-> fused]

C26_Witness ==
    /\ call.op = "map" /\ OnReceiver /\ Receiver = Num(0) /\ call.a = Not
    /\ ReturnedOptional /\ Holds(call.val.v, Bool(TRUE))
    /\ Chained(Not) = [present |-> TRUE, identity |-> Bool(FALSE)]
    /\ Fused(Not) = [present |-> TRUE, identity |-> Bool(FALSE)]

\* C27, as claimed: the method map called with a null or undefined
\* transformer fails with an InvalidArgument error on a present receiver
\* and on an absent one. The source looks at the identity first: on an
\* absent receiver map(null) returns an empty Optional.
C27_AsClaimed ==
    call.op = "map" /\ OnReceiver /\ ~Materialized(call.a) =>
        /\ call.st = "throw"
        /\ call.val = Error("Absent value was passed as transformer argument")

\* the call of the state was passed null or undefined for a function it
\* requires
AbsentArgument ==
    \/ /\ call.op \in { "Optional.map", "Optional.flatMap" }
       /\ ~Materialized(call.b)
    \/ /\ call.op \in { "map", "flatMap", "filter", "satisfies", "dissatisfies",
                        "orElseSupply", "orElseThrow", "supplyFallback",
                        "ifPresent", "ifAbsent" }
       /\ ~Materialized(call.a)
    \/ /\ call.op = "peek"
       /\ ~Materialized(call.a) \/ ~Materialized(call.b)

\* C28, as claimed: a call that was passed null or undefined for a required
\* function has invoked no function of the caller when it fails; and
\* peek(onPresent, onAbsent) with one of its two arguments absent fails with
\* the InvalidArgument error, nothing invoked, on a present and on an absent
\* receiver. The source runs ifPresent(onPresent) to its end before
\* ifAbsent(onAbsent) validates onAbsent.
C28_AsClaimed ==
    AbsentArgument =>
        /\ call.calls = <<>>
        /\ call.op = "peek" => call.st = "throw" /\ call.val \in InvalidArgument

\* two outcomes a caller cannot tell apart: they end alike, with the same
\* invocations, and return the same value or string, or Optionals of the
\* same observable state
Indistinct(one, other) ==
    LET optional(out) == /\ out.st = "return" /\ out.val.kind = "opt"
                         /\ out.val.v \in DOMAIN out.heap
    IN  /\ one.st = other.st /\ one.calls = other.calls /\ one.str = other.str
        /\ optional(one) = optional(other)
        /\ IF optional(one) THEN Result(one) = Result(other)
           ELSE one.val = other.val

\* C29: all absent Optionals are alike to their callers, whether the
\* identity stored is null or undefined and however they were made: a
\* method called on an absent receiver ends as the same method with the
\* same arguments on every other absent Optional (the same result, the same
\* invocations, the same failure), and equals called with an absent other
\* ends as with every other absent Optional in its place. It is stated of
\* the method and the arguments of each call made, which is a call of the
\* source, repeated on the Optionals there are after it.
C29_AbsentsIndistinct ==
    OnReceiver =>
        /\ Outcome = Method(call.op, Before, call.this, call.a, call.b)
        /\ ~Materialized(Receiver) =>
               \A r \in DOMAIN heap :
                   ~Materialized(heap[r]) =>
                       Indistinct(Method(call.op, heap, call.this, call.a, call.b),
                                  Method(call.op, heap, r, call.a, call.b))
        /\ call.op = "equals" /\ ~Materialized(heap[call.a.v]) =>
               \A r \in DOMAIN heap :
                   ~Materialized(heap[r]) =>
                       Indistinct(Outcome,
                                  Method("equals", heap, call.this, Opt(r), call.b))

C29_Witness ==
    /\ call.op = "toString" /\ OnReceiver /\ Receiver = Undefined
    /\ \E r \in DOMAIN heap : heap[r] = Null
    /\ call.str = "Optional {empty}"

\* the call of the state failed on its transformer argument, before
\* anything was invoked or constructed
TransformerRejected ==
    /\ call.st = "throw"
    /\ call.val = Error("Absent value was passed as transformer argument")
    /\ call.val \in InvalidArgument
    /\ call.calls = <<>> /\ ~Constructed

\* C30: the free functions map(v, t) and flatMap(v, t) and the method
\* flatMap(t) reject a null or undefined t with the argument error for every
\* v and every receiver, the absent ones included: no such call returns an
\* absent Optional.
C30_TransformerFirst ==
    /\ call.op \in { "Optional.map", "Optional.flatMap" } /\ ~Materialized(call.b)
           => TransformerRejected
    /\ call.op = "flatMap" /\ OnReceiver /\ ~Materialized(call.a)
           => TransformerRejected

C30_Witness ==
    /\ call.op = "flatMap" /\ OnReceiver /\ Receiver = Undefined
    /\ call.a = Null /\ TransformerRejected

====
